---------------------------- MODULE Spec2Model ----------------------------
(***************************************************************************)
(* The auction-purchase and order-status transaction core of the transport *)
(* portal (server/storage.ts, server/routes.ts, shared schema).            *)
(*                                                                         *)
(* The store is a relational database at READ COMMITTED isolation: a       *)
(* statement issued on the transaction handle `tx` is buffered and becomes *)
(* visible to other sessions at commit; an UPDATE takes the row's lock and *)
(* a second writer of that row waits for the lock, then re-evaluates its   *)
(* WHERE clause on the committed row.  A statement issued on the module    *)
(* level handle `db` is committed at once.                                 *)
(***************************************************************************)
EXTENDS Integers, Sequences, FiniteSets, Bags, TLC

\* ------------------------------------------------------------- bounds
NumProcs    == 3      \* sessions: concurrent requests that run a transaction
OrderProcs  == 2      \* the sessions the order side runs
MaxAuctions == 1      \* auction rows ever inserted
MaxOrders   == 2      \* order rows ever inserted
MaxBillings == 3      \* billing rows ever inserted
MaxHandovers == 2     \* handover rows ever inserted
MaxFeeCents == 120    \* the largest price, in cents, of the fee runs

Procs      == 1..NumProcs
AuctionIds == 1..MaxAuctions
OrderIds   == 1..MaxOrders

\* ------------------------------------------------------------- schema
Null  == "null"       \* SQL NULL / JavaScript undefined
NoRow == [absent |-> "never"]      \* no row was ever inserted under this id
Gone  == [absent |-> "deleted"]    \* the row was deleted; ids are not reused
Exists(r) == "absent" \notin DOMAIN r

\* dp: a driver whose account is still pending
UserIds == {"adm", "dis", "d1", "d2", "dp"}
\* users.role and users.status of the authenticated principals
UserRole ==
    [u \in UserIds |->
        IF u = "adm" THEN "admin" ELSE IF u = "dis" THEN "disponent" ELSE "driver"]
UserStatus == [u \in UserIds |-> IF u = "dp" THEN "pending" ELSE "active"]

orderStatusEnum   == {"open", "assigned", "in_progress", "delivered",
                      "completed", "cancelled"}
auctionStatusEnum == {"active", "sold", "cancelled"}
\* the principals that post orders in the model
OrderCreators == {"dis"}
\* the statuses the requests of the model ask for
StatusInputs == {"cancelled", "completed"}

\* prices in cents, as a decimal(10,2) column holds them
Prices == {10000}

\* ------------------------------------------------------------- numbers
\* naturals wider than TLC's integers: sequences of digits to the base
\* 2^10, least significant digit first
DigitBits == 10
Radix == 2 ^ DigitBits
MantissaBits == 53

RECURSIVE Digits(_)
Digits(n) == IF n = 0 THEN <<>> ELSE <<n % Radix>> \o Digits(n \div Radix)

RECURSIVE ValueFrom(_, _)
ValueFrom(b, i) == IF i > Len(b) THEN 0 ELSE b[i] + Radix * ValueFrom(b, i + 1)
Value(b) == ValueFrom(b, 1)

IsZero(b) == \A i \in 1..Len(b) : b[i] = 0
Zeros(k) == [i \in 1..k |-> 0]
Drop(b, k) == [i \in 1..(IF Len(b) > k THEN Len(b) - k ELSE 0) |-> b[i + k]]
Take(b, k) == [i \in 1..(IF Len(b) > k THEN k ELSE Len(b)) |-> b[i]]

\* bit i (from 1) of b
Bit(b, i) ==
    LET d == (i - 1) \div DigitBits + 1
    IN IF i >= 1 /\ d <= Len(b) THEN (b[d] \div 2 ^ ((i - 1) % DigitBits)) % 2 ELSE 0
\* the index of the highest set bit of b, 0 for zero
BitLen(b) ==
    IF IsZero(b) THEN 0
    ELSE CHOOSE i \in 1..(DigitBits * Len(b)) :
            Bit(b, i) = 1 /\ \A j \in (i + 1)..(DigitBits * Len(b)) : Bit(b, j) = 0

\* b + 1
RECURSIVE Inc(_)
Inc(b) == IF b = <<>> THEN <<1>>
          ELSE IF Head(b) + 1 < Radix THEN <<Head(b) + 1>> \o Tail(b)
          ELSE <<0>> \o Inc(Tail(b))

\* b * d for a small d
RECURSIVE MulSmallFrom(_, _, _, _)
MulSmallFrom(b, d, i, carry) ==
    IF i > Len(b) THEN Digits(carry)
    ELSE <<(b[i] * d + carry) % Radix>>
            \o MulSmallFrom(b, d, i + 1, (b[i] * d + carry) \div Radix)
MulSmall(b, d) == MulSmallFrom(b, d, 1, 0)

\* <<b \div d, b % d>> for a small d: long division from the top digit down
RECURSIVE DivSmallFrom(_, _, _, _)
DivSmallFrom(b, d, i, rem) ==
    IF i = 0 THEN <<<<>>, rem>>
    ELSE LET r == Radix * rem + b[i]
             rest == DivSmallFrom(b, d, i - 1, r % d)
         IN <<Append(rest[1], r \div d), rest[2]>>
DivSmall(b, d) == DivSmallFrom(b, d, Len(b), 0)

\* a * b: the column sums, then the carries
RECURSIVE ColumnFrom(_, _, _, _)
ColumnFrom(a, b, k, i) ==
    IF i > Len(a) THEN 0
    ELSE (IF k + 1 - i >= 1 /\ k + 1 - i <= Len(b) THEN a[i] * b[k + 1 - i] ELSE 0)
            + ColumnFrom(a, b, k, i + 1)
RECURSIVE CarryFrom(_, _, _, _)
CarryFrom(a, b, k, carry) ==
    IF k > Len(a) + Len(b) THEN Digits(carry)
    ELSE LET t == ColumnFrom(a, b, k, 1) + carry
         IN <<t % Radix>> \o CarryFrom(a, b, k + 1, t \div Radix)
Mul(a, b) == CarryFrom(a, b, 1, 0)

\* b * 2^k and b \div 2^k
ShiftLeft(b, k) == Zeros(k \div DigitBits) \o MulSmall(b, 2 ^ (k % DigitBits))
ShiftRight(b, k) == DivSmall(Drop(b, k \div DigitBits), 2 ^ (k % DigitBits))[1]

\* IEEE 754 binary64, positive normal numbers: [m, e] is m * 2^e with
\* 2^52 <= m < 2^53.
\* b / 2^s rounded to the nearest integer, ties to even; `more` says that the
\* exact value lies above b
RoundShift(b, s, more) ==
    LET q == ShiftRight(b, s)
        half == Bit(b, s) = 1
        sticky == more \/ \E i \in 1..(s - 1) : Bit(b, i) = 1
    IN IF half /\ (sticky \/ Bit(q, 1) = 1) THEN Inc(q) ELSE q

Normal(m, e) ==
    IF BitLen(m) > MantissaBits THEN [m |-> ShiftRight(m, 1), e |-> e + 1]
    ELSE [m |-> m, e |-> e]

\* the double nearest to n / d
Ratio(n, d) ==
    LET k == MantissaBits + DigitBits
        qr == DivSmall(ShiftLeft(Digits(n), k), d)
        s == BitLen(qr[1]) - MantissaBits
    IN Normal(RoundShift(qr[1], s, qr[2] # 0), s - k)

\* the double nearest to x * y
Times(x, y) ==
    LET p == Mul(x.m, y.m)
        s == BitLen(p) - MantissaBits
    IN Normal(RoundShift(p, s, FALSE), x.e + y.e + s)

\* Number.prototype.toFixed(2) in hundredths: the integer n nearest to
\* 100 * x, the larger one on a tie
ToFixed2(x) ==
    LET n == MulSmall(x.m, 100)
    IN Value(ShiftRight(n, 0 - x.e)) + Bit(n, 0 - x.e)

\* parseFloat of a decimal(10,2) string, given in cents
parseFloat(cents) == Ratio(cents, 100)
\* (parseFloat(order.price) * 0.1).toFixed(2), in cents
cancellationFeeAmount(cents) ==
    IF cents = 0 THEN 0 ELSE ToFixed2(Times(parseFloat(cents), Ratio(1, 10)))

\* the prices of the fee runs: every amount of cents up to MaxFeeCents
FeePrices == 0..MaxFeeCents
\* the fee of every price of the model, evaluated once
FeeTable == [c \in Prices \cup FeePrices |-> cancellationFeeAmount(c)]

VARIABLES
    auctions,   \* [AuctionIds -> auction row, NoRow or Gone], committed
    orders,     \* [OrderIds -> order row or NoRow], committed
    billings,   \* bag of committed billing rows
    procs,      \* [Procs -> the request a session runs]
    sales,      \* history: [AuctionIds -> purchaseAuction calls that returned a result]
    touched,    \* history: [AuctionIds -> an admin request wrote the auction]
    handovers   \* bag of committed vehicle_handovers rows

vars == <<auctions, orders, billings, procs, sales, touched, handovers>>

\* A session: the request it runs (op, pc, id, status), the acting principal
\* (user: the buyer of a purchase, the driverId handed to updateOrderStatus),
\* the columns of the row its transaction read that it reads again (snap), the
\* rows its transaction has written and not committed (aucW, ordW) and, once the
\* request is done, its HTTP answer (resp, body).
IdleProc ==
    [op |-> "idle", pc |-> "idle", user |-> Null, id |-> 0, status |-> Null,
     snap |-> NoRow, oid |-> 0, aucW |-> NoRow, ordW |-> NoRow,
     resp |-> 0, body |-> Null]

Init ==
    /\ auctions = [a \in AuctionIds |-> NoRow]
    /\ orders = [o \in OrderIds |-> NoRow]
    /\ billings = EmptyBag
    /\ procs = [p \in Procs |-> IdleProc]
    /\ sales = [a \in AuctionIds |-> 0]
    /\ touched = [a \in AuctionIds |-> FALSE]
    /\ handovers = EmptyBag

\* ------------------------------------------------------------- store
AuctionAt(a) == IF a \in AuctionIds THEN auctions[a] ELSE NoRow
OrderAt(o)   == IF o \in OrderIds THEN orders[o] ELSE NoRow

\* Row locks: an UPDATE buffered by an open transaction holds the row's lock.
AuctionLocked(a) ==
    \E q \in Procs : procs[q].op = "purchase" /\ procs[q].id = a /\ Exists(procs[q].aucW)
OrderLocked(o) ==
    \E q \in Procs : procs[q].op = "status" /\ procs[q].id = o /\ Exists(procs[q].ordW)

\* gen_random_uuid(): an id no row, committed or buffered, has had
FreshAuctionIds == {a \in AuctionIds : auctions[a] = NoRow}
FreshOrderIds ==
    {o \in OrderIds : orders[o] = NoRow /\ \A q \in Procs : procs[q].oid # o}
Least(S) == CHOOSE x \in S : \A y \in S : x <= y

\* the rows of a bag of billing rows that satisfy P, and their number
Rows(B, P(_)) == [r \in {x \in BagToSet(B) : P(x)} |-> B[r]]
Count(B, P(_)) == BagCardinality(Rows(B, P))
Insert(B, row) == B (+) SetToBag({row})

\* How a finished request leaves its session: what it asked for, what its
\* transaction had read, and the answer.
Done(p, code, body) ==
    [IdleProc EXCEPT !.op = procs[p].op, !.id = procs[p].id,
                     !.snap = procs[p].snap, !.pc = "done",
                     !.resp = code, !.body = body]

\* ------------------------------------------------------------- auctions
\* POST /api/auctions -> storage.createAuction
createAuction(u, price) ==
    /\ UserRole[u] = "admin"
    /\ FreshAuctionIds # {}
    /\ auctions' = [auctions EXCEPT ![Least(FreshAuctionIds)] =
            [status |-> "active", purchasedById |-> Null, purchasedAt |-> Null,
             instantPrice |-> price, createdById |-> u]]
    /\ UNCHANGED <<orders, billings, procs, sales, touched, handovers>>

\* The handle each statement of purchaseAuction is issued on (OnDb: a
\* statement issued on db commits on its own).
OnDb == "db"
PurchaseUpdateHandle == "tx"
PurchaseOrderHandle == "tx"

\* a gate that leaves the account status out
PurchaseAllowedAnyDriver(u) == UserRole[u] = "driver"
\* the gate of the purchase route: role driver, status active
PurchaseAllowed(u) == UserRole[u] = "driver" /\ UserStatus[u] = "active"
\* if (!auction || auction.status !== 'active') return undefined
PurchaseAvailable(row) == Exists(row) /\ row.status = "active"
\* a WHERE clause that names the id alone
PurchaseWhereIdOnly(row) == Exists(row)
\* WHERE id = :auctionId AND status = 'active'
PurchaseWhere(row) == Exists(row) /\ row.status = "active"
\* if (!result) return res.status(404)
NotAvailableCode == 404
\* what the transaction keeps of the auction it read
AuctionSnap(row) ==
    IF Exists(row)
    THEN [instantPrice |-> row.instantPrice, createdById |-> row.createdById]
    ELSE NoRow
\* an order inserted with the status of a manual assignment
PurchaseOrderRowAssigned(auction, auctionId, buyerId) ==
    [status |-> "assigned", assignedDriverId |-> buyerId,
     createdById |-> auction.createdById, price |-> auction.instantPrice,
     fromAuction |-> "true", srcAuction |-> auctionId]
\* the order a purchase inserts (srcAuction: history, not a column)
PurchaseOrderRow(auction, auctionId, buyerId) ==
    [status |-> "in_progress", assignedDriverId |-> buyerId,
     createdById |-> auction.createdById, price |-> auction.instantPrice,
     fromAuction |-> "true", srcAuction |-> auctionId]
\* the billing row a purchase inserts
PurchaseBillingRow(auction, auctionId, orderId, buyerId) ==
    [userId |-> buyerId, orderId |-> orderId, auctionId |-> auctionId,
     amount |-> auction.instantPrice, type |-> "order_payment",
     createdById |-> auction.createdById]

\* POST /api/auctions/:id/purchase: the role and status gate, then the
\* transaction's SELECT of the auction.
PurchaseBegin(p, u, a) ==
    /\ procs[p].pc \in {"idle", "done"}
    /\ LET me == [IdleProc EXCEPT !.op = "purchase", !.id = a]
           row == AuctionAt(a)
       IN procs' = [procs EXCEPT ![p] =
            IF ~PurchaseAllowed(u)
            THEN [me EXCEPT !.pc = "done", !.resp = 403]
            ELSE IF ~PurchaseAvailable(row)
            THEN [me EXCEPT !.pc = "done", !.resp = NotAvailableCode]
            ELSE [me EXCEPT !.pc = "pa_update", !.user = u,
                            !.snap = AuctionSnap(row)]]
    /\ UNCHANGED <<auctions, orders, billings, sales, touched, handovers>>

\* UPDATE auctions SET status = sold, ... WHERE id = :id AND status = active
PaUpdate(p) ==
    /\ procs[p].pc = "pa_update"
    /\ ~AuctionLocked(procs[p].id)
    /\ LET a == procs[p].id
           row == AuctionAt(a)
           upd == [row EXCEPT !.status = "sold", !.purchasedById = procs[p].user,
                              !.purchasedAt = "set"]
       IN IF PurchaseWhere(row)
          THEN IF PurchaseUpdateHandle = "tx"
               THEN /\ procs' = [procs EXCEPT ![p].pc = "pa_order", ![p].aucW = upd]
                    /\ UNCHANGED auctions
               ELSE /\ procs' = [procs EXCEPT ![p].pc = "pa_order"]
                    /\ auctions' = [auctions EXCEPT ![a] = upd]
          ELSE /\ procs' = [procs EXCEPT ![p] = Done(p, NotAvailableCode, Null)]
               /\ UNCHANGED auctions
    /\ UNCHANGED <<orders, billings, sales, touched, handovers>>

\* INSERT INTO orders ... RETURNING
PaInsertOrder(p) ==
    /\ procs[p].pc = "pa_order"
    /\ FreshOrderIds # {}
    /\ LET o == Least(FreshOrderIds)
           row == PurchaseOrderRow(procs[p].snap, procs[p].id, procs[p].user)
       IN IF PurchaseOrderHandle = "tx"
          THEN /\ procs' = [procs EXCEPT ![p].pc = "pa_billing", ![p].oid = o,
                                         ![p].ordW = row]
               /\ UNCHANGED orders
          ELSE /\ procs' = [procs EXCEPT ![p].pc = "pa_billing", ![p].oid = o]
               /\ orders' = [orders EXCEPT ![o] = row]
    /\ UNCHANGED <<auctions, billings, sales, touched, handovers>>

\* INSERT INTO billings ..., the last statement, then COMMIT and the route's
\* 200 answer with {auction, order}
PaInsertBilling(p) ==
    /\ procs[p].pc = "pa_billing"
    /\ BagCardinality(billings) < MaxBillings
    /\ LET row == PurchaseBillingRow(procs[p].snap, procs[p].id, procs[p].oid,
                                     procs[p].user)
       IN /\ billings' = Insert(billings, row)
          /\ auctions' = IF Exists(procs[p].aucW)
                         THEN [auctions EXCEPT ![procs[p].id] = procs[p].aucW]
                         ELSE auctions
          /\ orders' = IF Exists(procs[p].ordW)
                       THEN [orders EXCEPT ![procs[p].oid] = procs[p].ordW]
                       ELSE orders
    /\ procs' = [procs EXCEPT ![p] = Done(p, 200, "result")]
    /\ sales' = [sales EXCEPT ![procs[p].id] = @ + 1]
    /\ UNCHANGED <<touched, handovers>>

\* ------------------------------------------------------------- orders
\* what a request body gives for from_auction: nothing (the column default
\* 'false') or a value of its own
DefaultFlag == {"false"}
BodyFlags == {"false", "true"}
\* POST /api/orders -> storage.createOrder: the route spreads req.body into
\* the inserted row; status takes the column default
createOrder(u, price, flag) ==
    /\ UserRole[u] \in {"admin", "disponent"}
    /\ FreshOrderIds # {}
    /\ orders' = [orders EXCEPT ![Least(FreshOrderIds)] =
            [status |-> "open", assignedDriverId |-> Null, createdById |-> u,
             price |-> price, fromAuction |-> flag, srcAuction |-> 0]]
    /\ UNCHANGED <<auctions, billings, procs, sales, touched, handovers>>

\* The handle each statement of updateOrderStatus is issued on.
StatusUpdateHandle == "tx"

\* the guard of the fee: status === 'cancelled' && order.fromAuction === 'true'
\* && driverId
ChargesFee(status, order, driverId) ==
    status = "cancelled" /\ order.fromAuction = "true" /\ driverId # Null

\* a route that hands every principal's id over as driverId
StatusDriverIdAny(u) == u
\* const driverId = currentUser?.role === 'driver' ? req.user.claims.sub : undefined
StatusDriverId(u) == IF UserRole[u] = "driver" THEN u ELSE Null
\* a transaction that goes on without the order
StatusFoundAlways(row) == TRUE
\* if (!order) return undefined
StatusFound(row) == Exists(row)
\* what the transaction keeps of the order it read
OrderSnap(row) ==
    IF Exists(row)
    THEN [fromAuction |-> row.fromAuction, price |-> row.price,
          createdById |-> row.createdById]
    ELSE [fromAuction |-> Null, price |-> 0, createdById |-> Null]

\* PATCH /api/orders/:id/status: the route hands the principal's id over as
\* driverId when the principal is a driver; then the transaction's SELECT.
StatusBegin(p, u, o, status) ==
    /\ procs[p].pc \in {"idle", "done"}
    /\ LET me == [IdleProc EXCEPT !.op = "status", !.id = o]
           row == OrderAt(o)
       IN procs' = [procs EXCEPT ![p] =
            IF ~StatusFound(row)
            THEN [me EXCEPT !.pc = "done", !.resp = 200]
            ELSE [me EXCEPT !.pc = "uos_update", !.status = status,
                            !.user = StatusDriverId(u), !.snap = OrderSnap(row)]]
    /\ UNCHANGED <<auctions, orders, billings, sales, touched, handovers>>

\* UPDATE orders SET status = :status WHERE id = :id RETURNING; when no fee
\* is due this is the last statement: COMMIT and the route's 200 answer.
UosUpdate(p) ==
    /\ procs[p].pc = "uos_update"
    /\ ~OrderLocked(procs[p].id)
    /\ Exists(OrderAt(procs[p].id))
    /\ LET o == procs[p].id
           upd == [orders[o] EXCEPT !.status = procs[p].status]
       IN IF ~ChargesFee(procs[p].status, procs[p].snap, procs[p].user)
          THEN /\ procs' = [procs EXCEPT ![p] = Done(p, 200, "order")]
               /\ orders' = [orders EXCEPT ![o] = upd]
          ELSE IF StatusUpdateHandle = "tx"
          THEN /\ procs' = [procs EXCEPT ![p].pc = "uos_fee", ![p].ordW = upd]
               /\ UNCHANGED orders
          ELSE /\ procs' = [procs EXCEPT ![p].pc = "uos_fee"]
               /\ orders' = [orders EXCEPT ![o] = upd]
    /\ UNCHANGED <<auctions, billings, sales, touched, handovers>>

\* the fee row of a cancellation (auctionId 0: the column is NULL)
FeeRow(order, orderId, driverId) ==
    [userId |-> driverId, orderId |-> orderId, auctionId |-> 0,
     amount |-> FeeTable[order.price], type |-> "cancellation_fee",
     createdById |-> order.createdById]

\* INSERT INTO billings: the cancellation fee, the last statement; then
\* COMMIT and the route's 200 answer with the updated order
UosInsertFee(p) ==
    /\ procs[p].pc = "uos_fee"
    /\ BagCardinality(billings) < MaxBillings
    /\ billings' = Insert(billings, FeeRow(procs[p].snap, procs[p].id, procs[p].user))
    /\ orders' = IF Exists(procs[p].ordW)
                 THEN [orders EXCEPT ![procs[p].id] = procs[p].ordW] ELSE orders
    /\ procs' = [procs EXCEPT ![p] = Done(p, 200, "order")]
    /\ UNCHANGED <<auctions, sales, touched, handovers>>

\* The next statement of an open transaction throws: ROLLBACK of what the
\* transaction buffered, the error propagates and the route answers 500.
TxPcs == {"pa_update", "pa_order", "pa_billing", "uos_update", "uos_fee"}
TxFail(p) ==
    /\ procs[p].pc \in TxPcs
    /\ procs' = [procs EXCEPT ![p] = Done(p, 500, Null)]
    /\ UNCHANGED <<auctions, orders, billings, sales, touched, handovers>>

\* PATCH /api/auctions/:id/status -> storage.updateAuctionStatus
updateAuctionStatus(u, a, status) ==
    /\ UserRole[u] = "admin"
    /\ ~AuctionLocked(a)
    /\ Exists(AuctionAt(a))
    /\ auctions' = [auctions EXCEPT ![a].status = status]
    /\ touched' = [touched EXCEPT ![a] = TRUE]
    /\ UNCHANGED <<orders, billings, procs, sales, handovers>>

\* DELETE /api/auctions/:id -> storage.deleteAuction; billings.auction_id
\* references auctions.id, so a referenced auction cannot be deleted.
deleteAuction(u, a) ==
    /\ UserRole[u] = "admin"
    /\ ~AuctionLocked(a)
    /\ Exists(AuctionAt(a))
    /\ \A r \in BagToSet(billings) : r.auctionId # a
    /\ auctions' = [auctions EXCEPT ![a] = Gone]
    /\ touched' = [touched EXCEPT ![a] = TRUE]
    /\ UNCHANGED <<orders, billings, procs, sales, handovers>>

\* ------------------------------------------------------------- dispatch
\* How a request that runs a single statement leaves its session.
Answer(op, u, id, code, body) ==
    [IdleProc EXCEPT !.op = op, !.user = u, !.id = id, !.pc = "done",
                     !.resp = code, !.body = body]
\* the driver ids the assign requests of the model name
AssignInputs == {"d1", "dp"}

\* set({ assignedDriverId: driverId, status: 'assigned' })
AssignedRow(row, driverId) ==
    [row EXCEPT !.assignedDriverId = driverId, !.status = "assigned"]
\* a gate that lets the disponent through as well
AssignAllowedStaff(u) == UserRole[u] \in {"admin", "disponent"}
\* the gate of the assign route
AssignAllowed(u) == UserRole[u] = "admin"
\* PATCH /api/orders/:id/assign -> storage.assignOrderToDriver
assignOrderToDriver(p, u, o, driverId) ==
    /\ procs[p].pc \in {"idle", "done"}
    /\ IF ~AssignAllowed(u)
       THEN /\ procs' = [procs EXCEPT ![p] = Answer("assign", u, o, 403, Null)]
            /\ UNCHANGED orders
       ELSE /\ ~OrderLocked(o)
            /\ IF Exists(OrderAt(o))
               THEN /\ orders' = [orders EXCEPT ![o] = AssignedRow(orders[o], driverId)]
                    /\ procs' = [procs EXCEPT ![p] = Answer("assign", u, o, 200, "order")]
               ELSE /\ procs' = [procs EXCEPT ![p] = Answer("assign", u, o, 200, Null)]
                    /\ UNCHANGED orders
    /\ UNCHANGED <<auctions, billings, sales, touched, handovers>>

\* the bodies the order updates of the model send
UpdateBodies == {[fromAuction |-> "true"], [assignedDriverId |-> Null]}
\* set({ ...orderData })
UpdatedRow(row, body) ==
    [c \in DOMAIN row |-> IF c \in DOMAIN body THEN body[c] ELSE row[c]]
\* PATCH /api/orders/:id -> storage.updateOrder
updateOrder(p, u, o, body) ==
    /\ procs[p].pc \in {"idle", "done"}
    /\ IF UserRole[u] # "admin"
       THEN /\ procs' = [procs EXCEPT ![p] = Answer("update", u, o, 403, Null)]
            /\ UNCHANGED orders
       ELSE /\ ~OrderLocked(o)
            /\ IF Exists(OrderAt(o))
               THEN /\ orders' = [orders EXCEPT ![o] = UpdatedRow(orders[o], body)]
                    /\ procs' = [procs EXCEPT ![p] = Answer("update", u, o, 200, "order")]
               ELSE /\ procs' = [procs EXCEPT ![p] = Answer("update", u, o, 200, Null)]
                    /\ UNCHANGED orders
    /\ UNCHANGED <<auctions, billings, sales, touched, handovers>>

\* the gate of the accept and the reject route
AcceptAllowed(u) == UserRole[u] = "driver"
\* a guard that takes any driver of an existing order
AssignedToAnyone(row, driverId) == Exists(row)
\* where(and(eq(orders.id, orderId), eq(orders.assignedDriverId, driverId)))
AssignedTo(row, driverId) == Exists(row) /\ row.assignedDriverId = driverId
\* set({ status: 'in_progress' })
AcceptedRow(row) == [row EXCEPT !.status = "in_progress"]
\* PATCH /api/orders/:id/accept -> storage.acceptOrder
acceptOrder(p, u, o) ==
    /\ procs[p].pc \in {"idle", "done"}
    /\ IF ~AcceptAllowed(u)
       THEN /\ procs' = [procs EXCEPT ![p] = Answer("accept", u, o, 403, Null)]
            /\ UNCHANGED orders
       ELSE /\ ~OrderLocked(o)
            /\ IF AssignedTo(OrderAt(o), u)
               THEN /\ orders' = [orders EXCEPT ![o] = AcceptedRow(orders[o])]
                    /\ procs' = [procs EXCEPT ![p] = Answer("accept", u, o, 200, "order")]
               ELSE /\ procs' = [procs EXCEPT ![p] = Answer("accept", u, o, 200, Null)]
                    /\ UNCHANGED orders
    /\ UNCHANGED <<auctions, billings, sales, touched, handovers>>

\* a reject that leaves the driver on the order
RejectedRowKeepsDriver(row) == [row EXCEPT !.status = "open"]
\* set({ assignedDriverId: null, status: 'open' })
RejectedRow(row) == [row EXCEPT !.assignedDriverId = Null, !.status = "open"]
\* PATCH /api/orders/:id/reject -> storage.rejectOrder
rejectOrder(p, u, o) ==
    /\ procs[p].pc \in {"idle", "done"}
    /\ IF UserRole[u] # "driver"
       THEN /\ procs' = [procs EXCEPT ![p] = Answer("reject", u, o, 403, Null)]
            /\ UNCHANGED orders
       ELSE /\ ~OrderLocked(o)
            /\ IF AssignedTo(OrderAt(o), u)
               THEN /\ orders' = [orders EXCEPT ![o] = RejectedRow(orders[o])]
                    /\ procs' = [procs EXCEPT ![p] = Answer("reject", u, o, 200, "order")]
               ELSE /\ procs' = [procs EXCEPT ![p] = Answer("reject", u, o, 200, Null)]
                    /\ UNCHANGED orders
    /\ UNCHANGED <<auctions, billings, sales, touched, handovers>>

\* ------------------------------------------------------------ handover
HandoverTypes == {"pickup", "delivery"}
\* POST /api/orders/:id/handover: the driver gate, getOrderById and the
\* comparison of the order's driver with the caller.  The session's status
\* field holds the body's type.
HandoverBegin(p, u, o, type) ==
    /\ procs[p].pc \in {"idle", "done"}
    /\ BagCardinality(handovers) < MaxHandovers
    /\ LET me == [IdleProc EXCEPT !.op = "handover", !.user = u, !.id = o,
                                  !.status = type]
       IN procs' = [procs EXCEPT ![p] =
            IF UserRole[u] # "driver"
            THEN [me EXCEPT !.pc = "done", !.resp = 403]
            ELSE IF ~Exists(OrderAt(o))
            THEN [me EXCEPT !.pc = "done", !.resp = 404]
            ELSE IF OrderAt(o).assignedDriverId # u
            THEN [me EXCEPT !.pc = "done", !.resp = 403]
            ELSE [me EXCEPT !.pc = "ho_insert"]]
    /\ UNCHANGED <<auctions, orders, billings, sales, touched, handovers>>

\* storage.createVehicleHandover: one INSERT on db
HoInsert(p) ==
    /\ procs[p].pc = "ho_insert"
    /\ BagCardinality(handovers) < MaxHandovers
    /\ handovers' = Insert(handovers,
            [orderId |-> procs[p].id, driverId |-> procs[p].user,
             handoverType |-> procs[p].status])
    /\ procs' = [procs EXCEPT ![p].pc = "ho_update"]
    /\ UNCHANGED <<auctions, orders, billings, sales, touched>>

\* const newStatus = type === 'pickup' ? 'picked_up' : 'delivered'
HandoverStatus(type) == IF type = "pickup" THEN "picked_up" ELSE "delivered"
\* storage.updateOrderAfterHandover: one UPDATE on db.  The column is of the
\* enum type order_status: a value outside the enum makes the statement
\* fail, and the route answers 500 with the handover row already written.
HoUpdate(p) ==
    /\ procs[p].pc = "ho_update"
    /\ LET o == procs[p].id
           newStatus == HandoverStatus(procs[p].status)
       IN IF newStatus \notin orderStatusEnum
          THEN /\ procs' = [procs EXCEPT ![p] = Done(p, 500, Null)]
               /\ UNCHANGED orders
          ELSE /\ ~OrderLocked(o)
               /\ IF Exists(OrderAt(o))
                  THEN /\ orders' = [orders EXCEPT ![o].status = newStatus]
                       /\ procs' = [procs EXCEPT ![p] = Done(p, 200, "order")]
                  ELSE /\ procs' = [procs EXCEPT ![p] = Done(p, 200, Null)]
                       /\ UNCHANGED orders
    /\ UNCHANGED <<auctions, billings, sales, touched, handovers>>

\* ------------------------------------------------------------- billing
\* the driver the completion billings of the model name
BillingDrivers == {"d1"}
\* POST /api/admin/billing/create -> storage.createCompletionBilling ->
\* createBilling: one INSERT; billings.order_id references orders.id
createCompletionBilling(u, o, driverId, amount) ==
    /\ UserRole[u] = "admin"
    /\ Exists(OrderAt(o))
    /\ BagCardinality(billings) < MaxBillings
    /\ billings' = Insert(billings,
            [userId |-> driverId, orderId |-> o, auctionId |-> 0, amount |-> amount,
             type |-> "completion_payment", createdById |-> u])
    /\ UNCHANGED <<auctions, orders, procs, sales, touched, handovers>>

\* a filter that takes any billing row of the order
HasAnyBilling(B, o) == \E r \in BagToSet(B) : r.orderId = o
\* and(eq(billings.orderId, order.id), eq(billings.type, 'completion_payment'))
\* finds a row
HasCompletionBilling(B, o) ==
    \E r \in BagToSet(B) : r.orderId = o /\ r.type = "completion_payment"
\* where(eq(orders.status, 'completed'))
CompletedOrders == {o \in OrderIds : Exists(orders[o]) /\ orders[o].status = "completed"}

\* GET /api/admin/billing/pending -> storage.getCompletedOrdersForBilling:
\* the SELECT of the completed orders.  The session keeps the orders it read
\* (listed), those it has still to look up (todo) and its result (out);
\* billed is history: the orders that had a completion billing at this read.
GcbBegin(p, u) ==
    /\ procs[p].pc \in {"idle", "done"}
    /\ LET me == [IdleProc EXCEPT !.op = "pending", !.user = u]
           list == [listed |-> CompletedOrders, todo |-> CompletedOrders, out |-> {},
                    billed |-> {r.orderId : r \in {x \in BagToSet(billings) :
                                    x.type = "completion_payment"}}]
       IN procs' = [procs EXCEPT ![p] =
            IF UserRole[u] # "admin"
            THEN [me EXCEPT !.pc = "done", !.resp = 403]
            ELSE IF CompletedOrders = {}
            THEN [me EXCEPT !.pc = "done", !.resp = 200, !.body = "orders", !.snap = list]
            ELSE [me EXCEPT !.pc = "gcb_check", !.snap = list]]
    /\ UNCHANGED <<auctions, orders, billings, sales, touched, handovers>>

\* one turn of the loop: the SELECT of the order's completion billings and
\* the push; after the last turn the return and the route's 200 answer
GcbCheck(p, o) ==
    /\ procs[p].pc = "gcb_check"
    /\ o \in procs[p].snap.todo
    /\ LET list == procs[p].snap
           next == [list EXCEPT !.todo = @ \ {o},
                                !.out = IF HasCompletionBilling(billings, o)
                                        THEN @ ELSE @ \cup {o}]
       IN procs' = [procs EXCEPT ![p] =
            IF next.todo = {}
            THEN [procs[p] EXCEPT !.pc = "done", !.resp = 200, !.body = "orders",
                                  !.snap = next]
            ELSE [procs[p] EXCEPT !.snap = next]]
    /\ UNCHANGED <<auctions, orders, billings, sales, touched, handovers>>

\* ----------------------------------------------------- billing approval
\* NULL in a decimal column and a request body without newAmount
NoAmount == 0
\* the columns of a billing row that no INSERT of the program names hold
\* their defaults: status 'pending', original_amount NULL
WithDefaults(r) == r @@ [status |-> "pending", originalAmount |-> NoAmount]
\* req.body.status and req.body.newAmount of the requests of the model
ApprovalInputs == {"approved", "rejected", "paid"}
NewAmounts == {NoAmount, 9000}
\* the statuses the route lets through
ApprovalStatuses == {"approved", "rejected"}
\* updateData: status always, amount when newAmount is given
ApprovedRow(r, status, newAmount) ==
    [WithDefaults(r) EXCEPT !.status = status,
                            !.amount = IF newAmount # NoAmount THEN newAmount ELSE @]
\* PATCH /api/admin/billing/:id/status -> storage.updateBillingStatus: one
\* UPDATE on db where id = billingId.  The id names a row r of the table or,
\* with NoRow, none; the answer keeps r in snap.
updateBillingStatus(p, u, status, newAmount) ==
    /\ procs[p].pc \in {"idle", "done"}
    /\ \E r \in BagToSet(billings) \cup {NoRow} :
       LET ans(code, body) ==
             [Answer("approve", u, 0, code, body) EXCEPT !.snap = r]
       IN IF UserRole[u] # "admin"
          THEN /\ procs' = [procs EXCEPT ![p] = ans(403, Null)]
               /\ UNCHANGED billings
          ELSE IF status \notin ApprovalStatuses
          THEN /\ procs' = [procs EXCEPT ![p] = ans(400, Null)]
               /\ UNCHANGED billings
          ELSE IF Exists(r)
          THEN /\ billings' = Insert(billings (-) SetToBag({r}),
                                     ApprovedRow(r, status, newAmount))
               /\ procs' = [procs EXCEPT ![p] = ans(200, "billing")]
          ELSE /\ procs' = [procs EXCEPT ![p] = ans(200, Null)]
               /\ UNCHANGED billings
    /\ UNCHANGED <<auctions, orders, sales, touched, handovers>>

\* The auction side: listing, purchase and the admin's auction requests.
NextPurchase ==
    \/ \E u \in UserIds, price \in Prices : createAuction(u, price)
    \/ \E p \in Procs, u \in UserIds, a \in 0..MaxAuctions : PurchaseBegin(p, u, a)
    \/ \E p \in Procs : PaUpdate(p)
    \/ \E p \in Procs : PaInsertOrder(p)
    \/ \E p \in Procs : PaInsertBilling(p)
    \/ \E p \in Procs : TxFail(p)
    \/ \E u \in UserIds, a \in AuctionIds, s \in auctionStatusEnum :
            updateAuctionStatus(u, a, s)
    \/ \E u \in UserIds, a \in AuctionIds : deleteAuction(u, a)

SpecPurchase == Init /\ [][NextPurchase]_vars

\* The order side: orders posted or bought, and their status requests, run
\* by the first OrderProcs sessions.
NextOrders ==
    \/ \E u \in UserIds, price \in Prices : createAuction(u, price)
    \/ \E u \in OrderCreators, price \in Prices, f \in DefaultFlag :
            createOrder(u, price, f)
    \/ \E p \in 1..OrderProcs, u \in UserIds, a \in 0..MaxAuctions : PurchaseBegin(p, u, a)
    \/ \E p \in 1..OrderProcs : PaUpdate(p)
    \/ \E p \in 1..OrderProcs : PaInsertOrder(p)
    \/ \E p \in 1..OrderProcs : PaInsertBilling(p)
    \/ \E p \in 1..OrderProcs, u \in UserIds, o \in 0..MaxOrders, s \in StatusInputs :
            StatusBegin(p, u, o, s)
    \/ \E p \in 1..OrderProcs : UosUpdate(p)
    \/ \E p \in 1..OrderProcs : UosInsertFee(p)
    \/ \E p \in 1..OrderProcs : TxFail(p)

SpecOrders == Init /\ [][NextOrders]_vars

Next ==
    \/ \E u \in UserIds, price \in Prices : createAuction(u, price)
    \/ \E p \in Procs, u \in UserIds, a \in 0..MaxAuctions : PurchaseBegin(p, u, a)
    \/ \E p \in Procs : PaUpdate(p)
    \/ \E p \in Procs : PaInsertOrder(p)
    \/ \E p \in Procs : PaInsertBilling(p)
    \/ \E u \in OrderCreators, price \in Prices, f \in DefaultFlag :
            createOrder(u, price, f)
    \/ \E p \in Procs, u \in UserIds, o \in 0..MaxOrders, s \in StatusInputs :
            StatusBegin(p, u, o, s)
    \/ \E p \in Procs : UosUpdate(p)
    \/ \E p \in Procs : UosInsertFee(p)
    \/ \E p \in Procs : TxFail(p)
    \/ \E u \in UserIds, a \in AuctionIds, s \in auctionStatusEnum :
            updateAuctionStatus(u, a, s)
    \/ \E u \in UserIds, a \in AuctionIds : deleteAuction(u, a)
    \/ \E p \in Procs, u \in UserIds, o \in 0..MaxOrders, d \in AssignInputs :
            assignOrderToDriver(p, u, o, d)
    \/ \E p \in Procs, u \in UserIds, o \in 0..MaxOrders : acceptOrder(p, u, o)
    \/ \E p \in Procs, u \in UserIds, o \in 0..MaxOrders : rejectOrder(p, u, o)
    \/ \E p \in Procs, u \in UserIds, o \in 0..MaxOrders, b \in UpdateBodies :
            updateOrder(p, u, o, b)
    \/ \E p \in Procs, u \in UserIds, o \in 0..MaxOrders, t \in HandoverTypes :
            HandoverBegin(p, u, o, t)
    \/ \E p \in Procs : HoInsert(p)
    \/ \E p \in Procs : HoUpdate(p)
    \/ \E u \in UserIds, o \in 0..MaxOrders, d \in BillingDrivers, amount \in Prices :
            createCompletionBilling(u, o, d, amount)
    \/ \E p \in Procs, u \in UserIds : GcbBegin(p, u)
    \/ \E p \in Procs, o \in OrderIds : GcbCheck(p, o)
    \/ \E p \in Procs, u \in UserIds, s \in ApprovalInputs, n \in NewAmounts :
            updateBillingStatus(p, u, s, n)

Spec == Init /\ [][Next]_vars

\* The fee of a cancellation, price by price: one session lists, buys and
\* cancels an auction of every price of FeePrices.
FeeProcs == {1}
NextFee ==
    \/ \E u \in UserIds, price \in FeePrices : createAuction(u, price)
    \/ \E p \in FeeProcs, u \in UserIds, a \in 0..MaxAuctions : PurchaseBegin(p, u, a)
    \/ \E p \in FeeProcs : PaUpdate(p)
    \/ \E p \in FeeProcs : PaInsertOrder(p)
    \/ \E p \in FeeProcs : PaInsertBilling(p)
    \/ \E p \in FeeProcs, u \in UserIds, o \in 0..MaxOrders, s \in StatusInputs :
            StatusBegin(p, u, o, s)
    \/ \E p \in FeeProcs : UosUpdate(p)
    \/ \E p \in FeeProcs : UosInsertFee(p)

SpecFee == Init /\ [][NextFee]_vars

\* Approval: orders are posted, the admin bills them and approves or
\* rejects the billings, with or without a new amount.
ApprovalProcs == {1}
NextApproval ==
    \/ \E u \in OrderCreators, price \in Prices, f \in DefaultFlag :
            createOrder(u, price, f)
    \/ \E u \in UserIds, o \in 0..MaxOrders, d \in BillingDrivers, amount \in Prices :
            createCompletionBilling(u, o, d, amount)
    \/ \E p \in ApprovalProcs, u \in UserIds, s \in ApprovalInputs, n \in NewAmounts :
            updateBillingStatus(p, u, s, n)

SpecApproval == Init /\ [][NextApproval]_vars

\* Withdrawal: purchases race with the admin, who cancels or deletes the
\* auction.
CancelInputs == {"cancelled"}
NextCancel ==
    \/ \E u \in UserIds, price \in Prices : createAuction(u, price)
    \/ \E p \in Procs, u \in UserIds, a \in 0..MaxAuctions : PurchaseBegin(p, u, a)
    \/ \E p \in Procs : PaUpdate(p)
    \/ \E p \in Procs : PaInsertOrder(p)
    \/ \E p \in Procs : PaInsertBilling(p)
    \/ \E p \in Procs : TxFail(p)
    \/ \E u \in UserIds, a \in AuctionIds, s \in CancelInputs :
            updateAuctionStatus(u, a, s)
    \/ \E u \in UserIds, a \in AuctionIds : deleteAuction(u, a)

SpecCancel == Init /\ [][NextCancel]_vars
\* Handover: orders are posted, assigned and accepted, and the drivers hand
\* the vehicles over.
HandoverProcs == {1}
NextHandover ==
    \/ \E u \in OrderCreators, price \in Prices, f \in DefaultFlag :
            createOrder(u, price, f)
    \/ \E p \in HandoverProcs, u \in UserIds, o \in 0..MaxOrders, d \in AssignInputs :
            assignOrderToDriver(p, u, o, d)
    \/ \E p \in HandoverProcs, u \in UserIds, o \in 0..MaxOrders : acceptOrder(p, u, o)
    \/ \E p \in HandoverProcs, u \in UserIds, o \in 0..MaxOrders, t \in HandoverTypes :
            HandoverBegin(p, u, o, t)
    \/ \E p \in HandoverProcs : HoInsert(p)
    \/ \E p \in HandoverProcs : HoUpdate(p)

SpecHandover == Init /\ [][NextHandover]_vars

\* Billing: session 1 buys and completes or cancels orders, the admin bills
\* completed orders, session 2 reads the orders that wait for their billing.
LedgerProcs == {1}
ReaderProcs == {2}
NextBilling ==
    \/ \E u \in UserIds, price \in Prices : createAuction(u, price)
    \/ \E u \in OrderCreators, price \in Prices, f \in DefaultFlag :
            createOrder(u, price, f)
    \/ \E p \in LedgerProcs, u \in UserIds, a \in 0..MaxAuctions : PurchaseBegin(p, u, a)
    \/ \E p \in LedgerProcs : PaUpdate(p)
    \/ \E p \in LedgerProcs : PaInsertOrder(p)
    \/ \E p \in LedgerProcs : PaInsertBilling(p)
    \/ \E p \in LedgerProcs, u \in UserIds, o \in 0..MaxOrders, s \in StatusInputs :
            StatusBegin(p, u, o, s)
    \/ \E p \in LedgerProcs : UosUpdate(p)
    \/ \E p \in LedgerProcs : UosInsertFee(p)
    \/ \E u \in UserIds, o \in 0..MaxOrders, d \in BillingDrivers, amount \in Prices :
            createCompletionBilling(u, o, d, amount)
    \/ \E p \in ReaderProcs, u \in UserIds : GcbBegin(p, u)
    \/ \E p \in ReaderProcs, o \in OrderIds : GcbCheck(p, o)

SpecBilling == Init /\ [][NextBilling]_vars

\* Dispatch: orders posted or bought, then assigned, accepted, rejected and
\* handed over, request after request in one session.
DispatchProcs == {1}
NextDispatch ==
    \/ \E u \in UserIds, price \in Prices : createAuction(u, price)
    \/ \E u \in OrderCreators, price \in Prices, f \in BodyFlags :
            createOrder(u, price, f)
    \/ \E p \in DispatchProcs, u \in UserIds, a \in 0..MaxAuctions : PurchaseBegin(p, u, a)
    \/ \E p \in DispatchProcs : PaUpdate(p)
    \/ \E p \in DispatchProcs : PaInsertOrder(p)
    \/ \E p \in DispatchProcs : PaInsertBilling(p)
    \/ \E p \in DispatchProcs, u \in UserIds, o \in 0..MaxOrders, d \in AssignInputs :
            assignOrderToDriver(p, u, o, d)
    \/ \E p \in DispatchProcs, u \in UserIds, o \in 0..MaxOrders : acceptOrder(p, u, o)
    \/ \E p \in DispatchProcs, u \in UserIds, o \in 0..MaxOrders : rejectOrder(p, u, o)
    \/ \E p \in DispatchProcs, u \in UserIds, o \in 0..MaxOrders, b \in UpdateBodies :
            updateOrder(p, u, o, b)

SpecDispatch == Init /\ [][NextDispatch]_vars

\* ------------------------------------------------------------- properties
\* the committed rows an auction's purchases have left
OrdersOf(a) == {o \in OrderIds : Exists(orders[o]) /\ orders[o].srcAuction = a}
PaymentsOf(B, a) ==
    Count(B, LAMBDA r : r.type = "order_payment" /\ r.auctionId = a)
PaymentsFor(B, a, o) ==
    Count(B, LAMBDA r : r.type = "order_payment" /\ r.auctionId = a /\ r.orderId = o)
FeesOf(B, o) ==
    Count(B, LAMBDA r : r.type = "cancellation_fee" /\ r.orderId = o)
\* session p takes the step
Steps(p) == procs'[p] # procs[p]
\* the finished purchaseAuction calls on a whose transaction read a active
RacedCalls(a) ==
    {p \in Procs : /\ procs[p].op = "purchase" /\ procs[p].id = a
                   /\ procs[p].pc = "done" /\ Exists(procs[p].snap)}

\* C1: of N >= 2 purchaseAuction calls that race for one active auction
\* (each read the auction active, none was aborted by an error, the other
\* sessions ran nothing, no admin request wrote the auction) exactly one
\* returned {auction, order} and the N - 1 others returned the
\* not-available answer; the auction then has exactly one order and exactly
\* one order_payment row.
C1_ExactlyOneWinner ==
    \A a \in AuctionIds : ~touched[a] =>
        LET R == RacedCalls(a)
            won == {p \in R : procs[p].resp = 200 /\ procs[p].body = "result"}
            lost == {p \in R : procs[p].resp = 404 /\ procs[p].body = Null}
        IN /\ Cardinality(won) <= 1
           /\ Cardinality(OrdersOf(a)) = sales[a]
           /\ PaymentsOf(billings, a) = sales[a]
           /\ (/\ Cardinality(R) >= 2 /\ won \cup lost = R
               /\ \A p \in Procs \ R : procs[p].pc = "idle") =>
                 /\ Cardinality(won) = 1
                 /\ Cardinality(lost) = Cardinality(R) - 1
                 /\ sales[a] = 1
                 /\ Cardinality(OrdersOf(a)) = 1
                 /\ PaymentsOf(billings, a) = 1
\* every session raced for the same auction, and none was aborted
C1_Witness ==
    \E a \in AuctionIds :
        /\ ~touched[a]
        /\ RacedCalls(a) = Procs
        /\ \A p \in Procs : procs[p].resp \in {200, 404}

\* C2: whatever createAuction, purchaseAuction, updateAuctionStatus and
\* deleteAuction do to an auction, at most one purchaseAuction call on it
\* ever returns a result.
C2_AtMostOneSale == \A a \in AuctionIds : sales[a] <= 1

\* C3: purchaseAuction is all-or-nothing.  In every committed state each
\* successful purchase of an auction has left exactly one order and that
\* order exactly one order_payment row, and an auction carries a buyer only
\* if it has its order; while a purchase is open none of its writes is
\* visible (the auction is still active, its order and billing row are not
\* there), and a purchase that fails leaves every table as it was.
C3_Committed ==
    \A a \in AuctionIds :
        /\ Cardinality(OrdersOf(a)) = sales[a]
        /\ PaymentsOf(billings, a) = sales[a]
        /\ \A o \in OrdersOf(a) : PaymentsFor(billings, a, o) = 1
        /\ \A r \in BagToSet(billings) :
              r.type = "order_payment" /\ r.auctionId = a => r.orderId \in OrdersOf(a)
        /\ Exists(auctions[a]) =>
              (auctions[a].purchasedById # Null <=> sales[a] >= 1)
        /\ sales[a] >= 1 => Exists(auctions[a])
C3_Invisible ==
    \A p \in Procs :
        procs[p].op = "purchase" /\ procs[p].pc \in {"pa_order", "pa_billing"} =>
            LET a == procs[p].id
            IN /\ auctions[a].status = "active"
               /\ ~touched[a] =>
                     auctions[a].purchasedById = Null /\ auctions[a].purchasedAt = Null
               /\ procs[p].pc = "pa_billing" =>
                     /\ orders[procs[p].oid] = NoRow
                     /\ \A r \in BagToSet(billings) : r.orderId # procs[p].oid
C3_Failure ==
    \A p \in Procs :
        (Steps(p) /\ procs[p].op = "purchase" /\ procs[p].pc \in TxPcs
            /\ procs'[p].resp = 500) =>
        UNCHANGED <<auctions, orders, billings, sales>>
C4_Unavailable ==
    \A p \in Procs :
        LET a == procs'[p].id
            begins == procs[p].pc \in {"idle", "done"} /\ procs'[p].resp # 403
            updates == procs[p].pc = "pa_update" /\ procs'[p].resp # 500
        IN (/\ Steps(p) /\ procs'[p].op = "purchase"
            /\ begins \/ updates
            /\ ~(Exists(AuctionAt(a)) /\ AuctionAt(a).status = "active")) =>
           /\ procs'[p].pc = "done" /\ procs'[p].resp = 404 /\ procs'[p].body = Null
           /\ UNCHANGED <<auctions, orders, billings, sales>>
C4_NotAvailable == [][C4_Unavailable]_vars
\* a call lost the race: it read the auction active and was answered 404
\* on the auction another driver had bought
C4_Witness ==
    \E p \in Procs :
        /\ procs[p].op = "purchase" /\ procs[p].pc = "done" /\ procs[p].resp = 404
        /\ Exists(procs[p].snap)
        /\ Exists(AuctionAt(procs[p].id))
        /\ AuctionAt(procs[p].id).status = "sold"
        /\ AuctionAt(procs[p].id).purchasedById # Null

\* C5: the step in which a purchaseAuction call of driver D on auction A
\* succeeds sets A.status = sold, A.purchasedById = D and A.purchasedAt,
\* inserts one order with price = A.instantPrice, assignedDriverId = D,
\* createdById = A.createdById, fromAuction = 'true', status = in_progress,
\* and one billing row with type = order_payment, amount = A.instantPrice,
\* userId = D, orderId = that order, auctionId = A, createdById =
\* A.createdById; nothing else changes.
C5_Success ==
    \A p \in Procs :
        (Steps(p) /\ procs[p].op = "purchase" /\ procs[p].pc \in TxPcs
            /\ procs'[p].resp = 200) =>
        LET a == procs[p].id
            o == procs[p].oid
            D == procs[p].user
            A == auctions[a]
        IN /\ UserRole[D] = "driver"
           /\ auctions' = [auctions EXCEPT ![a] =
                  [A EXCEPT !.status = "sold", !.purchasedById = D, !.purchasedAt = "set"]]
           /\ orders[o] = NoRow
           /\ orders' = [orders EXCEPT ![o] =
                  [price |-> A.instantPrice, assignedDriverId |-> D,
                   createdById |-> A.createdById, fromAuction |-> "true",
                   status |-> "in_progress", srcAuction |-> a]]
           /\ billings' = Insert(billings,
                  [type |-> "order_payment", amount |-> A.instantPrice,
                   userId |-> D, orderId |-> o, auctionId |-> a,
                   createdById |-> A.createdById])
           /\ procs'[p].body = "result"
C5_PurchaseFields == [][C5_Success]_vars
\* a purchase has succeeded: the auction is sold to a driver
C5_Witness ==
    \E p \in Procs :
        /\ procs[p].op = "purchase" /\ procs[p].pc = "done" /\ procs[p].resp = 200
        /\ Exists(AuctionAt(procs[p].id))
        /\ AuctionAt(procs[p].id).status = "sold"
        /\ \E o \in OrdersOf(procs[p].id) :
              orders[o].assignedDriverId = AuctionAt(procs[p].id).purchasedById

\* a principal with the driver role
IsDriver(u) == u \in UserIds /\ UserRole[u] = "driver"
\* session p runs a driver's cancellation of the auction-sourced order o
DriverCancels(p, o) ==
    /\ procs[p].op = "status" /\ procs[p].id = o
    /\ procs[p].pc \in {"uos_update", "uos_fee"}
    /\ procs[p].status = "cancelled" /\ IsDriver(procs[p].user)
    /\ Exists(orders[o]) /\ orders[o].fromAuction = "true"

\* C6: a driver's cancellation of an auction-sourced order O commits the
\* status write and the fee row in one step: the step that makes O's new
\* status visible, or answers the call, adds exactly one cancellation_fee
\* row with orderId = O, userId = the driver, createdById = O.createdById
\* and leaves O cancelled; a fee row for O appears in no other step; and a
\* call that fails leaves both tables as they were.
C6_Step ==
    \A o \in OrderIds :
        /\ \A p \in Procs :
              (Steps(p) /\ DriverCancels(p, o)
                  /\ (orders'[o] # orders[o] \/ procs'[p].resp = 200)) =>
              /\ orders'[o].status = "cancelled"
              /\ procs'[p].pc = "done" /\ procs'[p].body = "order"
              /\ \E r \in BagToSet(billings') :
                    /\ billings' = Insert(billings, r)
                    /\ r.type = "cancellation_fee" /\ r.orderId = o
                    /\ r.userId = procs[p].user
                    /\ r.createdById = orders[o].createdById
        /\ FeesOf(billings', o) # FeesOf(billings, o) =>
              /\ FeesOf(billings', o) = FeesOf(billings, o) + 1
              /\ orders'[o].status = "cancelled"
              /\ \E p \in Procs : Steps(p) /\ DriverCancels(p, o)
        /\ \A p \in Procs :
              (Steps(p) /\ DriverCancels(p, o) /\ procs'[p].resp = 500) =>
              UNCHANGED <<orders, billings>>
C6_FeeWithCancel == [][C6_Step]_vars
\* a driver has cancelled the order bought at an auction and was charged
C6_Witness ==
    \E o \in OrderIds, p \in Procs :
        /\ Exists(orders[o]) /\ orders[o].fromAuction = "true"
        /\ orders[o].status = "cancelled"
        /\ FeesOf(billings, o) = 1
        /\ procs[p].op = "status" /\ procs[p].id = o /\ procs[p].body = "order"

\* C7: however often, and however concurrently, an order is cancelled, it
\* has at most one cancellation_fee row.
C7_AtMostOneFee == \A o \in OrderIds : FeesOf(billings, o) <= 1

\* C8: the amount of every cancellation_fee row is the order's price
\* times 0.10 rounded to two decimal places, computed on the decimal
\* value: in cents, a tenth of the price rounded half up.
RoundedTenth(cents) == (cents + 5) \div 10
C8_FeeIsTenPercent ==
    \A r \in BagToSet(billings) :
        r.type = "cancellation_fee" => r.amount = RoundedTenth(orders[r.orderId].price)

\* C9: a status request writes a cancellation_fee row only when the new
\* status is cancelled, the order is auction-sourced and the principal is
\* a driver; every other status request, an admin's or a disponent's
\* cancellation and a cancellation of a posted order among them, leaves
\* billings as it was.
C9_Step ==
    \A p \in Procs :
        LET o == procs[p].id
            due == /\ procs[p].status = "cancelled"
                   /\ orders[o].fromAuction = "true"
                   /\ IsDriver(procs[p].user)
            answers == procs[p].pc \in {"uos_update", "uos_fee"} /\ procs'[p].resp = 200
        IN /\ (Steps(p) /\ procs[p].op = "status" /\ answers) =>
              IF due
              THEN /\ FeesOf(billings', o) = FeesOf(billings, o) + 1
                   /\ BagCardinality(billings') = BagCardinality(billings) + 1
              ELSE billings' = billings
           /\ (Steps(p) /\ procs'[p].op = "status" /\ ~answers) => billings' = billings
C9_FeeOnlyForDriverCancel == [][C9_Step]_vars
\* an auction-sourced order was cancelled by a principal who is no driver:
\* it has no fee row
C9_Witness ==
    \E o \in OrderIds, p \in Procs :
        /\ Exists(orders[o]) /\ orders[o].status = "cancelled"
        /\ orders[o].fromAuction = "true"
        /\ FeesOf(billings, o) = 0
        /\ procs[p].op = "status" /\ procs[p].id = o /\ procs[p].body = "order"
        /\ \A q \in Procs : procs[q].pc \in {"idle", "done"}

\* C10: updateOrderStatus on an id that names no order returns undefined
\* (the route answers 200 with no body) and changes no table.
C10_Step ==
    \A p \in Procs :
        (/\ Steps(p) /\ procs[p].pc \in {"idle", "done"}
         /\ procs'[p].op = "status"
         /\ ~Exists(OrderAt(procs'[p].id))) =>
        /\ procs'[p].pc = "done" /\ procs'[p].resp = 200 /\ procs'[p].body = Null
        /\ UNCHANGED <<auctions, orders, billings, sales>>
C10_MissingOrder == [][C10_Step]_vars
\* a status request on a missing id was answered while orders exist
C10_Witness ==
    \E p \in Procs, o \in OrderIds :
        /\ procs[p].op = "status" /\ procs[p].pc = "done"
        /\ ~Exists(OrderAt(procs[p].id))
        /\ procs[p].body = Null /\ procs[p].resp = 200
        /\ Exists(orders[o])

\* an active driver
ActiveDriver(u) == IsDriver(u) /\ UserStatus[u] = "active"

\* C11: on an order with fromAuction = 'false' in status assigned whose
\* assignedDriverId is the active driver D, rejectOrder(order, D) leaves the
\* order open with assignedDriverId null, and acceptOrder(order, D) instead
\* leaves it in_progress with assignedDriverId still D; no other order
\* changes.
C11_Step ==
    \A o \in OrderIds :
        (/\ Exists(orders[o])
         /\ orders[o].fromAuction = "false" /\ orders[o].status = "assigned"
         /\ ActiveDriver(orders[o].assignedDriverId)) =>
        \A p \in Procs : LET D == orders[o].assignedDriverId IN
        /\ rejectOrder(p, D, o) =>
              /\ orders' = [orders EXCEPT ![o] =
                     [orders[o] EXCEPT !.status = "open", !.assignedDriverId = Null]]
              /\ procs'[p].resp = 200 /\ procs'[p].body = "order"
        /\ acceptOrder(p, D, o) =>
              /\ orders' = [orders EXCEPT ![o] =
                     [orders[o] EXCEPT !.status = "in_progress"]]
              /\ orders'[o].assignedDriverId = D
              /\ procs'[p].resp = 200 /\ procs'[p].body = "order"
C11_RejectAcceptSymmetry == [][C11_Step]_vars
\* one posted order was rejected by its driver just now and is open again,
\* another one was accepted and is in progress with its driver
C11_Witness ==
    \E p \in Procs, o1 \in OrderIds, o2 \in OrderIds :
        /\ procs[p].op = "reject" /\ procs[p].id = o1 /\ procs[p].body = "order"
        /\ ActiveDriver(procs[p].user)
        /\ Exists(orders[o1]) /\ orders[o1].fromAuction = "false"
        /\ orders[o1].status = "open" /\ orders[o1].assignedDriverId = Null
        /\ Exists(orders[o2]) /\ orders[o2].fromAuction = "false"
        /\ orders[o2].status = "in_progress" /\ ActiveDriver(orders[o2].assignedDriverId)

\* C12: an auction-sourced order cannot be rejected: rejectOrder(order, D)
\* on an order with fromAuction = 'true', called by the driver D who bought
\* it, leaves the order unchanged.
C12_Step ==
    \A o \in OrderIds :
        (/\ Exists(orders[o]) /\ orders[o].fromAuction = "true"
         /\ orders[o].srcAuction # 0 /\ IsDriver(orders[o].assignedDriverId)) =>
        \A p \in Procs :
            rejectOrder(p, orders[o].assignedDriverId, o) => orders'[o] = orders[o]
C12_NoRejectOfAuctionOrder == [][C12_Step]_vars

\* C13: every order with fromAuction = 'true' was inserted by a successful
\* purchaseAuction; createOrder and updateOrder, called by an admin or a
\* disponent through the order endpoints, never produce such an order.
C13_FlagOnlyByPurchase ==
    \A o \in OrderIds :
        Exists(orders[o]) /\ orders[o].fromAuction = "true" => orders[o].srcAuction # 0

\* C14: in every state every order that a purchase spawned (fromAuction =
\* 'true') has a non-null assignedDriverId, the driver who bought the
\* auction it comes from; no assignOrderToDriver, rejectOrder, updateOrder
\* or updateOrderStatus call changes or clears it.
C14_BuyerStaysAssigned ==
    \A o \in OrderIds :
        (Exists(orders[o]) /\ orders[o].srcAuction # 0) =>
            /\ orders[o].assignedDriverId # Null
            /\ orders[o].assignedDriverId = auctions[orders[o].srcAuction].purchasedById

\* C15: an assign request of a principal whose role is not admin is answered
\* 403 and changes nothing: status and assignedDriverId of every order, and
\* every other table, are as before.
C15_Step ==
    \A p \in Procs :
        (/\ Steps(p) /\ procs'[p].op = "assign"
         /\ UserRole[procs'[p].user] # "admin") =>
        /\ procs'[p].resp = 403 /\ procs'[p].body = Null
        /\ UNCHANGED <<auctions, orders, billings, handovers>>
C15_AssignNeedsAdmin == [][C15_Step]_vars
\* a driver's assign request on an existing order was answered 403
C15_Witness ==
    \E p \in Procs :
        /\ procs[p].op = "assign" /\ procs[p].resp = 403
        /\ IsDriver(procs[p].user)
        /\ Exists(OrderAt(procs[p].id))

\* C16: a purchase request of a principal whose role is not driver, or whose
\* status is not active, is answered 403 before purchaseAuction runs: the
\* auction stays as it was and no order or billing row is created; every
\* purchase transaction is run by an active driver.
C16_Step ==
    \A p \in Procs :
        (Steps(p) /\ procs[p].pc \in {"idle", "done"} /\ procs'[p].op = "purchase") =>
        \A u \in UserIds :
            (~ActiveDriver(u) /\ PurchaseBegin(p, u, procs'[p].id)) =>
            /\ procs'[p].pc = "done" /\ procs'[p].resp = 403
            /\ UNCHANGED <<auctions, orders, billings, sales>>
C16_Buyers ==
    \A p \in Procs :
        procs[p].op = "purchase" /\ procs[p].pc \in TxPcs => ActiveDriver(procs[p].user)
C16_PurchaseGate == []C16_Buyers /\ [][C16_Step]_vars
\* a purchase request on an active auction was answered 403
C16_Witness ==
    \E p \in Procs :
        /\ procs[p].op = "purchase" /\ procs[p].resp = 403
        /\ Exists(AuctionAt(procs[p].id))
        /\ AuctionAt(procs[p].id).status = "active"
        /\ OrdersOf(procs[p].id) = {}

\* C17: only active drivers accept orders: an accept request of a driver
\* whose status is pending or inactive returns no order and leaves every
\* order unchanged, also when that driver is the order's assignedDriverId.
C17_Step ==
    \A p \in Procs :
        (/\ Steps(p) /\ procs'[p].op = "accept"
         /\ IsDriver(procs'[p].user) /\ UserStatus[procs'[p].user] # "active") =>
        /\ procs'[p].body = Null
        /\ orders' = orders
C17_AcceptNeedsActiveDriver == [][C17_Step]_vars


\* the sessions whose pending-billing request has passed the admin gate
Readers == {p \in Procs : procs[p].op = "pending" /\ procs[p].resp # 403}
\* order o has a committed billing row of type completion_payment
C18_Billed(o) ==
    \E r \in BagToSet(billings) : r.orderId = o /\ r.type = "completion_payment"
\* what holds of a pending-billing request at every moment
C18_Listing(p) ==
    LET list == procs[p].snap IN
    /\ list.out \subseteq list.listed \ list.todo
    /\ list.out \cap list.billed = {}
    /\ \A o \in list.listed \ (list.out \cup list.todo) :
            C18_Billed(o)
    /\ procs[p].pc = "done" => list.todo = {}
\* what each of its steps does
C18_Step(p) ==
    /\ Steps(p) /\ procs'[p].op = "pending" /\ procs'[p].resp # 403
    =>  LET list == procs'[p].snap IN
        IF procs[p].pc = "gcb_check"
        THEN \A o \in procs[p].snap.todo \ list.todo :
                (o \in list.out) <=> ~C18_Billed(o)
        ELSE /\ list.listed = {o \in OrderIds :
                    Exists(orders[o]) /\ orders[o].status = "completed"}
             /\ list.todo = list.listed
\* C18: getCompletedOrdersForBilling reads exactly the orders with status
\* completed and returns each of them exactly when its lookup finds no
\* billing row of type completion_payment for it: a returned order was
\* completed and had no such row, a left-out order has one.  An order that
\* had a committed completion billing when the call began is never in the
\* result, whatever other billing rows it has.
C18_PendingBilling ==
    /\ [](\A p \in Readers : C18_Listing(p))
    /\ [][\A p \in Procs : C18_Step(p)]_vars
\* a finished call that lists one completed order and leaves out another,
\* bought at an auction, that has its order payment and a completion billing
C18_Witness ==
    \E p \in Readers, o1, o2 \in OrderIds :
        /\ procs[p].pc = "done" /\ procs[p].snap.listed = {o1, o2}
        /\ procs[p].snap.out = {o2} /\ o1 # o2
        /\ \E r \in BagToSet(billings) : r.orderId = o1 /\ r.type = "order_payment"
        /\ C18_Billed(o1)
        /\ ~C18_Billed(o2)


\* the transitions of the order state machine
C19_Machine ==
    {<<"open", "assigned">>, <<"assigned", "in_progress">>,
     <<"in_progress", "completed">>, <<"in_progress", "delivered">>,
     <<"delivered", "completed">>, <<"open", "cancelled">>,
     <<"assigned", "cancelled">>, <<"in_progress", "cancelled">>}
C19_Step ==
    \A o \in OrderIds :
        (/\ Exists(orders[o]) /\ Exists(orders'[o])
         /\ orders'[o].status # orders[o].status
         /\ \E p \in Procs : Steps(p) /\ procs[p].op = "status" /\ procs[p].id = o)
        => <<orders[o].status, orders'[o].status>> \in C19_Machine
\* C19: every change of an order's status that updateOrderStatus commits is
\* a transition of the state machine: open -> assigned -> in_progress ->
\* completed (optionally through delivered), open, assigned or in_progress
\* -> cancelled, and nothing leaves completed or cancelled.
C19_StatusMachine == [][C19_Step]_vars


\* the step that ends a handover request that passed the route's checks
C20_Step ==
    \A p \in Procs :
        (Steps(p) /\ procs[p].op = "handover" /\ procs[p].pc = "ho_update") =>
        LET after == orders'[procs[p].id].status IN
        /\ procs[p].status = "pickup" => after = "in_progress"
        /\ procs[p].status = "delivery" => after \in {"completed", "delivered"}
        /\ after \in orderStatusEnum
\* C20: when the handover request of the order's assigned driver ends, the
\* order's status is in_progress after a pickup and completed (or
\* delivered) after a delivery, and in either case a value of the
\* order_status enum.
C20_HandoverStatus == [][C20_Step]_vars


\* the handover rows of order o and the given type
HandoversOf(o, type) ==
    LET rows == {r \in BagToSet(handovers) : r.orderId = o /\ r.handoverType = type}
        RECURSIVE Sum(_)
        Sum(S) == IF S = {} THEN 0
                  ELSE LET r == CHOOSE x \in S : TRUE
                       IN CopiesIn(r, handovers) + Sum(S \ {r})
    IN Sum(rows)
\* C21: for every order and each handover type there is at most one
\* handover row: a second submission of the same type for the same order
\* adds no second row.
C21_OneHandoverPerType ==
    \A o \in OrderIds, type \in HandoverTypes : HandoversOf(o, type) <= 1


\* C22: in every state an auction with status sold has a purchasedById,
\* and an auction with status active or cancelled has neither purchasedById
\* nor purchasedAt, under any sequence of purchases and status updates.
C22_PurchasedIffSold ==
    \A a \in AuctionIds :
        Exists(auctions[a]) =>
            IF auctions[a].status = "sold"
            THEN auctions[a].purchasedById # Null
            ELSE auctions[a].purchasedById = Null /\ auctions[a].purchasedAt = Null


C23_Step ==
    \A p \in Procs :
        (Steps(p) /\ procs'[p].op = "approve" /\ procs'[p].body = "billing") =>
        \A r2 \in BagToSet(billings') :
            (/\ billings' = Insert(billings (-) SetToBag({procs'[p].snap}), r2)
             /\ r2.amount # procs'[p].snap.amount) =>
            r2.originalAmount = procs'[p].snap.amount
\* C23: an updateBillingStatus call that gives a billing row a new amount
\* leaves the amount the row had before the call in originalAmount.
C23_OriginalAmountKept == [][C23_Step]_vars


C24_Step ==
    \A p \in Procs :
        (/\ Steps(p) /\ procs'[p].pc = "done" /\ procs'[p].resp # 403
         /\ procs'[p].op \in {"update", "assign", "accept", "reject"}
         /\ \/ ~Exists(OrderAt(procs'[p].id))
            \/ /\ procs'[p].op \in {"accept", "reject"}
               /\ ~AssignedTo(OrderAt(procs'[p].id), procs'[p].user)) =>
        /\ procs'[p].resp = 404
        /\ UNCHANGED <<auctions, orders, billings, handovers>>
\* C24: a request that updates, assigns, accepts or rejects an order whose
\* id names no row, or accepts or rejects an order that is not assigned to
\* the caller, is answered 404 and changes nothing; it is never answered
\* 200 with an empty body.
C24_AbsentIs404 == [][C24_Step]_vars


\* an accept or reject request of a driver for an order that exists and is
\* assigned to nobody or to someone else
C25_Foreign(p) ==
    /\ procs[p].op \in {"accept", "reject"}
    /\ UserRole[procs[p].user] = "driver"
    /\ procs[p].id \in OrderIds
C25_Step ==
    \A p \in Procs :
        (/\ Steps(p) /\ C25_Foreign(p)'
         /\ Exists(orders[procs'[p].id])
         /\ orders[procs'[p].id].assignedDriverId # procs'[p].user) =>
        /\ procs'[p].resp = 200 /\ procs'[p].body = Null
        /\ UNCHANGED <<auctions, orders, billings, handovers>>
\* C25: acceptOrder and rejectOrder called by a driver who is not the
\* order's assignedDriverId, an order without a driver included, return
\* no row and leave the order, its status and assignedDriverId as they were.
C25_ForeignDriverNoEffect == [][C25_Step]_vars
\* a driver's reject and a driver's accept on an order assigned to another
\* driver, and on an order with no driver, have returned no row
C25_Witness ==
    \E p \in Procs :
        /\ C25_Foreign(p) /\ procs[p].pc = "done" /\ procs[p].body = Null
        /\ Exists(orders[procs[p].id])
        /\ orders[procs[p].id].assignedDriverId = "d1"
        /\ procs[p].user = "d2"


C26_Step ==
    \A r \in BagToSet(billings') :
        (r.type = "cancellation_fee" /\ CopiesIn(r, billings') > CopiesIn(r, billings)) =>
        r.userId = orders[r.orderId].assignedDriverId
\* C26: every cancellation_fee row a cancel request creates is charged to
\* the driver the order is assigned to when it is cancelled; a driver the
\* order is not assigned to causes no fee row for it.
C26_FeeToAssignedDriver == [][C26_Step]_vars


C27_Step ==
    \A p \in Procs :
        (/\ Steps(p) /\ procs'[p].op \in {"accept", "reject"}
         /\ procs'[p].id \in OrderIds
         /\ Exists(orders[procs'[p].id])
         /\ orders[procs'[p].id].assignedDriverId = procs'[p].user
         /\ orders[procs'[p].id].status \in {"in_progress", "completed", "cancelled"}) =>
        orders' = orders
\* C27: acceptOrder and rejectOrder called by the assigned driver on an
\* order whose status is in_progress, completed or cancelled leave the
\* order as it is: they do not move it to in_progress or back to open and
\* do not clear assignedDriverId.
C27_OnlyFromAssigned == [][C27_Step]_vars


\* the rows purchases have committed for auction a: none, or one order with
\* its one order payment
C28_Consistent ==
    \A a \in AuctionIds :
        /\ sales[a] <= 1
        /\ Cardinality(OrdersOf(a)) = sales[a]
        /\ PaymentsOf(billings, a) = sales[a]
        /\ \A o \in OrdersOf(a) : PaymentsFor(billings, a, o) = 1
        /\ sales[a] = 1 => Exists(auctions[a]) /\ auctions[a].purchasedById # Null
C28_Step ==
    \A a \in AuctionIds :
        \* the admin's write applies to a bought auction after its rows
        /\ (auctions'[a] # auctions[a] /\ procs' = procs /\ Exists(auctions[a])
                /\ auctions[a].purchasedById # Null) =>
              Cardinality(OrdersOf(a)) = 1 /\ PaymentsOf(billings, a) = 1
        /\ \A p \in Procs : (Steps(p) /\ procs[p].op = "purchase" /\ procs[p].id = a) =>
              \* rows appear with the sale only, made on the active row
              /\ (orders' # orders \/ billings' # billings \/ sales'[a] # sales[a]) =>
                    /\ Exists(auctions[a]) /\ auctions[a].status = "active"
                    /\ auctions'[a].status = "sold"
                    /\ sales'[a] = sales[a] + 1
                    /\ procs'[p].resp = 200
              \* an update that matches no active row ends the call
              /\ (procs[p].pc = "pa_update"
                    /\ ~(Exists(auctions[a]) /\ auctions[a].status = "active")) =>
                    /\ procs'[p].pc = "done" /\ procs'[p].resp \in {404, 500}
                    /\ UNCHANGED <<auctions, orders, billings, sales>>
\* C28: while purchases of auction A race with the admin's cancellation or
\* deletion of A, in every state A has either no order and no order payment
\* or, sold once, exactly one order with its one payment, which exist
\* before an admin write reaches the bought auction; a purchase whose
\* conditional update matches no active row answers not-available and
\* creates nothing.
C28_PurchaseVersusAdmin == []C28_Consistent /\ [][C28_Step]_vars
\* the admin cancelled the auction between a purchase's read and its
\* update: the purchase answered not-available and nothing was created
C28_Witness ==
    \E a \in AuctionIds, p \in Procs :
        /\ Exists(auctions[a]) /\ auctions[a].status = "cancelled"
        /\ auctions[a].purchasedById = Null /\ sales[a] = 0
        /\ procs[p].op = "purchase" /\ procs[p].id = a /\ procs[p].pc = "done"
        /\ procs[p].resp = 404 /\ Exists(procs[p].snap)
        /\ OrdersOf(a) = {} /\ billings = EmptyBag


C29_Step ==
    \A p \in Procs :
        LET o == procs'[p].id
            A == procs'[p].user
        IN /\ (/\ Steps(p) /\ procs'[p].op \in {"accept", "reject"}
               /\ UserRole[A] = "driver" /\ o \in OrderIds /\ Exists(orders[o])) =>
              IF orders[o].assignedDriverId = A
              THEN /\ procs'[p].body = "order"
                   /\ orders'[o].status =
                        IF procs'[p].op = "accept" THEN "in_progress" ELSE "open"
              ELSE /\ procs'[p].body = Null
                   /\ orders' = orders
           \* the reassignment itself
           /\ (/\ Steps(p) /\ procs'[p].op = "assign" /\ procs'[p].body = "order") =>
              /\ orders'[o].status = "assigned"
              /\ orders'[o].assignedDriverId \in AssignInputs
\* C29: a driver's accept or reject of order O writes only if the driver is
\* O's assignedDriverId when the UPDATE runs: once the admin's assignment
\* of O to another driver B has committed, the call returns no row and O
\* stays assigned to B with status assigned; a reject never clears an
\* assignment to someone else.
C29_WriteOnlyIfStillAssigned == [][C29_Step]_vars
\* driver d1's reject came after the order was assigned to dp: it returned
\* no row and the order is still assigned to dp
C29_Witness ==
    \E p \in Procs :
        /\ procs[p].op = "reject" /\ procs[p].user = "d1" /\ procs[p].pc = "done"
        /\ procs[p].resp = 200 /\ procs[p].body = Null
        /\ procs[p].id \in OrderIds /\ Exists(orders[procs[p].id])
        /\ orders[procs[p].id].assignedDriverId = "dp"
        /\ orders[procs[p].id].status = "assigned"


\* the handover row of the request session p is working on
C30_Row(p) ==
    [orderId |-> procs[p].id, driverId |-> procs[p].user,
     handoverType |-> procs[p].status]
C30_Step ==
    \A p \in Procs :
        (/\ Steps(p) /\ procs[p].op = "handover" /\ procs[p].pc = "ho_update"
         /\ procs'[p].resp = 500) =>
        CopiesIn(C30_Row(p), handovers') = CopiesIn(C30_Row(p), handovers) - 1
\* C30: a handover request whose status update fails after its handover row
\* was inserted takes the row back: the record and the status change are
\* written together or not at all.
C30_HandoverAtomic == [][C30_Step]_vars

=============================================================================
